---- MODULE Spec2Model ----
(***************************************************************************)
(* shared-ipc: request/response correlation over postMessage.              *)
(* Two execution contexts, each running its own copy of src/src/index.js   *)
(* (the current variant, lines 213-507), joined by a one-way transport.    *)
(***************************************************************************)
EXTENDS Integers, Sequences, FiniteSets, TLC

\* ---------------------------------------------------------------- bounds
MaxReq == 2
MaxNet == 2
MaxRun == 1

\* ------------------------------------------------------- value encodings
Ctx == {"main", "peer"}
Other(c) == IF c = "main" THEN "peer" ELSE "main"

\* JavaScript `undefined`, and "no object" (a null reference).
UNDEF == "<undefined>"
NONE == "<none>"
\* A value whose typeof is "number", standing where a string is expected.
NUMVAL == "<number>"
\* handle encodings: undefined, null and a non-empty string; any value >= 0
\* is that number.
NoHandle == 0 - 1
NullHandle == 0 - 2
StrHandle == 0 - 3

TypeOf(v) == IF v = UNDEF THEN "undefined" ELSE IF v = NUMVAL THEN "number" ELSE "string"
\* JavaScript truthiness of a string-or-undefined value.
Truthy(v) == v # UNDEF /\ v # ""
\* JavaScript truthiness of a handle: undefined, null and 0 are falsy.
TruthyHandle(h) == h > 0 \/ h = StrHandle
\* String(v) and template-literal interpolation.
ToStr(v) == IF v = UNDEF THEN "undefined" ELSE IF v = NUMVAL THEN "7" ELSE v

EnvKinds == {"window", "node"}
CallNames == {"greet", "legacy", ""}
\* What embedding code may pass as `call`: a name, or a value that is no string.
ReqCalls == CallNames \cup {NUMVAL}
\* The names the embedding code registers handlers under (any string is a key).
RegNames == {"greet", "legacy", ""}
Data == {"World"}

\* The message object: the keys an object literal or a received payload has.
Message(call, data, handle, source, error) ==
    [kind |-> "object", call |-> call, data |-> data, handle |-> handle,
     source |-> source, error |-> error, extra |-> UNDEF]
NoMessage == [Message(UNDEF, UNDEF, NoHandle, UNDEF, UNDEF) EXCEPT !.kind = "none"]
NullPayload == [Message(UNDEF, UNDEF, NoHandle, UNDEF, UNDEF) EXCEPT !.kind = "null"]

\* A promise: pending, or settled once with a value (or an error message).
Pending == [state |-> "pending", value |-> UNDEF]
Settle(p, how, v) == IF p.state = "pending" THEN [state |-> how, value |-> v] ELSE p

\* env, linked: the configuration (what each context is; whether the far end
\* of the transport is a context of the model, or the open world).
\* ipcReqId, ipcReqs, ipcHandlers: the module-level state of index.js.
\* promises: the deferred made by each makeIpcRequest call, by handle.
\* running: handleIpcMessage invocations suspended at their await.
\* net: messages handed to the transport and not yet delivered.
\* op: the last operation, its arguments and how it ended.
VARIABLES env, linked, ipcReqId, ipcReqs, promises, ipcHandlers, running, net, op
vars == <<env, linked, ipcReqId, ipcReqs, promises, ipcHandlers, running, net, op>>
config == <<env, linked>>

\* ------------------------------------------------------ ambient context
isWindowDefined(c) == env[c] = "window"
hasMessageEvent(c) == env[c] = "window"
hasHTMLIFrameElement(c) == env[c] = "window"
hasGlobalPostMessage(c) == env[c] = "window"
windowName(c) == c
WindowFunctions(c) == IF isWindowDefined(c) THEN {"legacy"} ELSE {}

getWindowNameSafe(c) ==
    IF isWindowDefined(c) /\ TypeOf(windowName(c)) = "string" THEN windowName(c) ELSE "worker"

isWindowLike(c, target) == isWindowDefined(c) /\ target = "window"

isIpcMessage(obj) ==
    /\ obj.kind = "object"
    /\ TypeOf(obj.call) = "string"
    /\ TypeOf(obj.source) = "string"
    /\ (obj.handle = NoHandle \/ obj.handle >= 0)
    /\ (obj.error = UNDEF \/ TypeOf(obj.error) = "string")

\* ---------------------------------------------------------- destinations
\* "window": this context's own Window; "foreignWindow": the other context's
\* window (another realm: not instanceof this realm's Window); "port": a
\* Worker or MessagePort to the other context; "plainObject": no postMessage.
Targets(c) ==
    IF env[c] = "window"
    THEN {"null", "iframe", "iframeNoWindow", "window", "foreignWindow", "port", "plainObject"}
    ELSE {"null", "port", "plainObject"}

resolvePostTarget(c, target) ==
    IF target # "null" /\ hasHTMLIFrameElement(c) /\ target \in {"iframe", "iframeNoWindow"}
    THEN (IF target = "iframe" THEN "foreignWindow" ELSE "null")
    ELSE target

hasPostMessage(target) == target \in {"window", "foreignWindow", "port"}
Wire(from, to, msg) == [from |-> from, to |-> to, payload |-> msg]

\* What postIpcMessage does: the error it throws (NONE if it returns) and the
\* messages it hands to the transport.
postIpcMessage(c, target, msg) ==
    IF ~isIpcMessage(msg)
    THEN [threw |-> "Invalid IPC message structure", sent |-> {}]
    ELSE IF target # "null" /\ isWindowLike(c, target)
    THEN [threw |-> NONE, sent |-> {Wire(c, c, msg)}]
    ELSE IF target # "null" /\ hasPostMessage(target)
    THEN [threw |-> NONE, sent |-> {Wire(c, Other(c), msg)}]
    ELSE IF hasGlobalPostMessage(c)
    THEN [threw |-> NONE, sent |-> {Wire(c, c, msg)}]
    ELSE [threw |-> "Invalid postIpcMessage target: No valid method found", sent |-> {}]

\* ------------------------------------------------------------- op record
NoOutcome == [threw |-> FALSE, isError |-> FALSE, value |-> UNDEF]
\* op describes the operation of the current turn of the event loop; between
\* turns it is NoOp.
NoOp ==
    [kind |-> "idle", ctx |-> "main", target |-> NONE, form |-> NONE,
     source |-> NONE, fallback |-> NONE, msg |-> NoMessage,
     outcome |-> "ok", invoked |-> NONE, result |-> NoOutcome, sent |-> {}]

\* The transport takes the posted messages: it holds them for delivery when
\* its far end is modelled, and carries them out of the model otherwise.
Post(netBase, sent) == IF linked THEN netBase \cup sent ELSE netBase

\* A makeIpcRequest call: its handle, its deferred, and whether postIpcMessage
\* was reached and returned (otherwise the call threw).
NewRequest(handle, sent) == [handle |-> handle, def |-> Pending, sent |-> sent]
\* The promise makeIpcRequest returns: rejected by its throw, else the deferred.
Future(r) == IF ~r.sent THEN [state |-> "rejected", value |-> "thrown"] ELSE r.def

InitState ==
    /\ env \in {[c \in Ctx |-> k] : k \in EnvKinds}
    /\ ipcReqId = [c \in Ctx |-> 0]
    /\ ipcReqs = [c \in Ctx |-> {}]
    /\ promises = [c \in Ctx |-> <<>>]
    /\ ipcHandlers = [c \in Ctx |-> [n \in RegNames |-> NONE]]
    /\ running = [c \in Ctx |-> {}]
    /\ net = {}
    /\ op = NoOp

Init == InitState /\ linked = TRUE
InitRouter == InitState /\ linked = FALSE

\* ------------------------------------------------------- public: request
\* Variant: the handle is read but the counter is not advanced.
makeIpcRequest_noIncrement(c, target, call, data) ==
    LET handle == ipcReqId[c]
        postCall == Message(call, data, handle, getWindowNameSafe(c), UNDEF)
        postTarget == resolvePostTarget(c, target)
        res == IF postTarget = "null"
               THEN [threw |-> "Invalid postMessage target", sent |-> {}]
               ELSE postIpcMessage(c, postTarget, postCall)
    IN  /\ op = NoOp
        /\ Len(promises[c]) < MaxReq
        /\ ipcReqs' = [ipcReqs EXCEPT ![c] = @ \cup {handle}]
        /\ promises' = [promises EXCEPT ![c] =
                Append(@, NewRequest(handle, res.threw = NONE))]
        /\ net' = Post(net, res.sent)
        /\ Cardinality(net') <= MaxNet
        /\ op' = [NoOp EXCEPT !.kind = "request", !.ctx = c, !.target = target,
                              !.msg = postCall,
                              !.outcome = IF res.threw = NONE THEN "ok" ELSE res.threw,
                              !.sent = res.sent]
        /\ UNCHANGED <<config, ipcReqId, ipcHandlers, running>>

\* Variant: the Call Message is posted without a completion entry.
makeIpcRequest_noEntry(c, target, call, data) ==
    LET handle == ipcReqId[c]
        postCall == Message(call, data, handle, getWindowNameSafe(c), UNDEF)
        postTarget == resolvePostTarget(c, target)
        res == IF postTarget = "null"
               THEN [threw |-> "Invalid postMessage target", sent |-> {}]
               ELSE postIpcMessage(c, postTarget, postCall)
    IN  /\ op = NoOp
        /\ ipcReqId[c] < MaxReq
        /\ ipcReqId' = [ipcReqId EXCEPT ![c] = handle + 1]
        /\ promises' = [promises EXCEPT ![c] =
                Append(@, NewRequest(handle, res.threw = NONE))]
        /\ net' = Post(net, res.sent)
        /\ Cardinality(net') <= MaxNet
        /\ op' = [NoOp EXCEPT !.kind = "request", !.ctx = c, !.target = target,
                              !.msg = postCall,
                              !.outcome = IF res.threw = NONE THEN "ok" ELSE res.threw,
                              !.sent = res.sent]
        /\ UNCHANGED <<config, ipcReqs, ipcHandlers, running>>

makeIpcRequest(c, target, call, data) ==
    LET handle == ipcReqId[c]
        postCall == Message(call, data, handle, getWindowNameSafe(c), UNDEF)
        postTarget == resolvePostTarget(c, target)
        res == IF postTarget = "null"
               THEN [threw |-> "Invalid postMessage target", sent |-> {}]
               ELSE postIpcMessage(c, postTarget, postCall)
    IN  /\ op = NoOp
        /\ ipcReqId[c] < MaxReq
        /\ ipcReqId' = [ipcReqId EXCEPT ![c] = handle + 1]
        /\ ipcReqs' = [ipcReqs EXCEPT ![c] = @ \cup {handle}]
        /\ promises' = [promises EXCEPT ![c] =
                Append(@, NewRequest(handle, res.threw = NONE))]
        /\ net' = Post(net, res.sent)
        /\ Cardinality(net') <= MaxNet
        /\ op' = [NoOp EXCEPT !.kind = "request", !.ctx = c, !.target = target,
                              !.msg = postCall,
                              !.outcome = IF res.threw = NONE THEN "ok" ELSE res.threw,
                              !.sent = res.sent]
        /\ UNCHANGED <<config, ipcHandlers, running>>

\* -------------------------------------------------------- public: notify
\* Variant: the notification takes a handle and a table entry, as a request does.
sendIpcMessage_tracked(c, target, call, data) ==
    LET postTarget == resolvePostTarget(c, target)
        msg == Message(call, data, ipcReqId[c], getWindowNameSafe(c), UNDEF)
        res == IF postTarget = "null"
               THEN [threw |-> "Invalid postMessage target", sent |-> {}]
               ELSE postIpcMessage(c, postTarget, msg)
    IN  /\ op = NoOp
        /\ ipcReqId[c] < MaxReq
        /\ ipcReqId' = [ipcReqId EXCEPT ![c] = @ + 1]
        /\ ipcReqs' = [ipcReqs EXCEPT ![c] = @ \cup {ipcReqId[c]}]
        /\ promises' = [promises EXCEPT ![c] =
                Append(@, NewRequest(ipcReqId[c], res.threw = NONE))]
        /\ net' = Post(net, res.sent)
        /\ Cardinality(net') <= MaxNet
        /\ op' = [NoOp EXCEPT !.kind = "notify", !.ctx = c, !.target = target,
                              !.msg = msg,
                              !.outcome = IF res.threw = NONE THEN "ok" ELSE res.threw,
                              !.sent = res.sent]
        /\ UNCHANGED <<config, ipcHandlers, running>>

\* Variant: an unresolvable destination makes the call return without sending.
sendIpcMessage_silentReturn(c, target, call, data) ==
    LET postTarget == resolvePostTarget(c, target)
        msg == Message(call, data, NoHandle, getWindowNameSafe(c), UNDEF)
        res == IF postTarget = "null"
               THEN [threw |-> NONE, sent |-> {}]
               ELSE postIpcMessage(c, postTarget, msg)
    IN  /\ op = NoOp
        /\ net' = Post(net, res.sent)
        /\ Cardinality(net') <= MaxNet
        /\ op' = [NoOp EXCEPT !.kind = "notify", !.ctx = c, !.target = target,
                              !.msg = msg,
                              !.outcome = IF res.threw = NONE THEN "ok" ELSE res.threw,
                              !.sent = res.sent]
        /\ UNCHANGED <<config, ipcReqId, ipcReqs, promises, ipcHandlers, running>>

sendIpcMessage(c, target, call, data) ==
    LET postTarget == resolvePostTarget(c, target)
        msg == Message(call, data, NoHandle, getWindowNameSafe(c), UNDEF)
        res == IF postTarget = "null"
               THEN [threw |-> "Invalid postMessage target", sent |-> {}]
               ELSE postIpcMessage(c, postTarget, msg)
    IN  /\ op = NoOp
        /\ net' = Post(net, res.sent)
        /\ Cardinality(net') <= MaxNet
        /\ op' = [NoOp EXCEPT !.kind = "notify", !.ctx = c, !.target = target,
                              !.msg = msg,
                              !.outcome = IF res.threw = NONE THEN "ok" ELSE res.threw,
                              !.sent = res.sent]
        /\ UNCHANGED <<config, ipcReqId, ipcReqs, promises, ipcHandlers, running>>

\* ------------------------------------------------------ public: register
\* Variant: a name that is already bound keeps its first callback.
addIpcMessageHandler_keepFirst(c, name, handler) ==
    /\ op = NoOp
    /\ ipcHandlers' = IF ipcHandlers[c][name] # NONE
                      THEN ipcHandlers
                      ELSE [ipcHandlers EXCEPT ![c][name] = handler]
    /\ op' = [NoOp EXCEPT !.kind = "register", !.ctx = c, !.target = name, !.invoked = handler]
    /\ UNCHANGED <<config, ipcReqId, ipcReqs, promises, running, net>>

addIpcMessageHandler(c, name, handler) ==
    /\ op = NoOp
    /\ ipcHandlers' = [ipcHandlers EXCEPT ![c][name] = handler]
    /\ op' = [NoOp EXCEPT !.kind = "register", !.ctx = c, !.target = name, !.invoked = handler]
    /\ UNCHANGED <<config, ipcReqId, ipcReqs, promises, running, net>>

\* ------------------------------------------------------------- callbacks
\* The functions embedding code registers. "greet" returns a greeting
\* synchronously, "fail" throws synchronously, "slow" returns a promise that
\* settles in a later turn. "legacy" is the function found on window.
Callbacks == {"greet", "fail", "slow"}
\* The callbacks the embedding code binds to each name.
Registrable(name) == IF name = "greet" THEN Callbacks ELSE {"greet"}
IsAsync(cb) == cb = "slow"

Returned(v) == [threw |-> FALSE, isError |-> FALSE, value |-> v]
ThrewError(m) == [threw |-> TRUE, isError |-> TRUE, value |-> m]
ThrewValue(v) == [threw |-> TRUE, isError |-> FALSE, value |-> v]

\* Every way an invocation of cb(data) can end.
Outcomes(cb, data) ==
    CASE cb = "greet" -> {Returned("Hello " \o ToStr(data) \o "!")}
      [] cb = "legacy" -> {Returned("legacy " \o ToStr(data))}
      [] cb = "fail" -> {ThrewError("boom"), ThrewError(""), ThrewValue(UNDEF)}
      [] cb = "slow" -> {Returned(UNDEF), ThrewError("late")}
      [] OTHER -> {Returned(UNDEF)}

\* error instanceof Error ? error.message : String(error)
ErrorString(o) == IF o.isError THEN o.value ELSE ToStr(o.value)

\* ----------------------------------------------------------- inbound router
\* The raw value handed to handleIpcMessage: a MessageEvent (wrapped) or the
\* payload itself (bare).
Event(wrapped, trusted, source, payload) ==
    [wrapped |-> wrapped, isTrusted |-> trusted, source |-> source, data |-> payload]

Present(form, from, payload) ==
    CASE form = "event" -> Event(TRUE, TRUE, from, payload)
      [] form = "eventNoSource" -> Event(TRUE, TRUE, NONE, payload)
      [] form = "untrusted" -> Event(TRUE, FALSE, from, payload)
      [] OTHER -> Event(FALSE, FALSE, NONE, payload)

\* Variant: the type of `call` is tested, its truthiness is not.
IsCall_anyString(message) == TypeOf(message.call) = "string"

\* Variant: the handle is tested before the call name, so a message with a
\* truthy handle is taken for a result.
IsCall_handleFirst(message) ==
    /\ ~TruthyHandle(message.handle)
    /\ Truthy(message.call) /\ TypeOf(message.call) = "string"

\* message.call && typeof message.call === "string"
IsCall(message) == Truthy(message.call) /\ TypeOf(message.call) = "string"

\* message.handle !== undefined && message.handle !== null
HasHandle(message) == message.handle # NoHandle /\ message.handle # NullHandle

\* The callee of a call: the registered handler, else the window function of
\* that name, else NONE.
LookupHandler(c, callName) ==
    IF callName \in RegNames /\ ipcHandlers[c][callName] # NONE
    THEN ipcHandlers[c][callName]
    ELSE IF isWindowDefined(c) /\ callName \in WindowFunctions(c)
    THEN "legacy"
    ELSE NONE

\* Variant: the reply to a failed call also carries the handler's value as data.
ResultMessage_dataAndError(c, message, o) ==
    Message(UNDEF, IF o.threw THEN ToStr(o.value) ELSE o.value, message.handle,
            getWindowNameSafe(c), IF o.threw THEN ErrorString(o) ELSE UNDEF)

\* The object posted back after the handler has settled with outcome o.
ResultMessage(c, message, o) ==
    IF o.threw
    THEN Message(UNDEF, UNDEF, message.handle, getWindowNameSafe(c), ErrorString(o))
    ELSE Message(UNDEF, o.value, message.handle, getWindowNameSafe(c), UNDEF)

\* Variant: every call that names a sender is answered, handle or not.
ReplySent_anyCall(c, message, source, o) ==
    IF source # NONE
    THEN {Wire(c, source, ResultMessage(c, message, o))}
    ELSE {}

\* What the reply guards post: nothing without a handle or a source.
ReplySent(c, message, source, o) ==
    IF HasHandle(message) /\ source # NONE
    THEN {Wire(c, source, ResultMessage(c, message, o))}
    ELSE {}

\* else if (message.handle): the handle a result is looked up under.
ResultKey(message) == IF TruthyHandle(message.handle) THEN {message.handle} ELSE {}

\* Variant: a matched result completes the oldest pending request.
DispatchResult_oldestPending(pr, c, message) ==
    IF ResultKey(message) \cap ipcReqs[c] # {}
    THEN LET oldest == CHOOSE h \in ipcReqs[c] : \A g \in ipcReqs[c] : h <= g IN
         [pr EXCEPT ![c][oldest + 1].def =
            IF Truthy(message.error)
            THEN Settle(@, "rejected", message.error)
            ELSE Settle(@, "resolved", message.data)]
    ELSE pr

\* The result branch: complete the pending request, if any.
DispatchResult(pr, c, message) ==
    IF ResultKey(message) \cap ipcReqs[c] # {}
    THEN [pr EXCEPT ![c][message.handle + 1].def =
            IF Truthy(message.error)
            THEN Settle(@, "rejected", message.error)
            ELSE Settle(@, "resolved", message.data)]
    ELSE pr

\* Variant: a processed result is acknowledged to its sender.
ResultBranchSent_acknowledge(c, message, source) ==
    IF HasHandle(message) /\ source # NONE
    THEN {Wire(c, source, Message(UNDEF, UNDEF, message.handle, getWindowNameSafe(c), UNDEF))}
    ELSE {}

\* What the result branch posts: it holds no postMessage.
ResultBranchSent(c, message, source) == {}

\* let source: the event's source. The function has one parameter: a second
\* argument passed by the listener (a fallback reply target) is not read.
Source(c, ev, fallback) == IF hasMessageEvent(c) /\ ev.wrapped THEN ev.source ELSE NONE

\* Variant: isTrusted is not consulted.
Unwrap_noTrustCheck(c, ev) ==
    IF hasMessageEvent(c) /\ ev.wrapped
    THEN (IF ev.data.kind = "null" THEN "Received IPC message was null" ELSE NONE)
    ELSE IF isIpcMessage(ev.data)
    THEN NONE
    ELSE "Received IPC data was not a valid instance of type MessageEvent or IpcMessage"

\* The error handleIpcMessage throws before routing, or NONE.
Unwrap(c, ev) ==
    IF hasMessageEvent(c) /\ ev.wrapped
    THEN (IF ~ev.isTrusted
          THEN "Received IPC data was not a trusted instance of type MessageEvent"
          ELSE IF ev.data.kind = "null" THEN "Received IPC message was null" ELSE NONE)
    ELSE IF isIpcMessage(ev.data)
    THEN NONE
    ELSE "Received IPC data was not a valid instance of type MessageEvent or IpcMessage"

\* Variant: what the handler throws leaves handleIpcMessage uncaught.
CallOutcome_uncaught(o) == IF o.threw THEN "Uncaught (in promise)" ELSE "ok"

\* try { ... } catch (error) { ... }: how the call branch ends once the
\* handler has settled with outcome o: normally, also when the handler threw.
CallOutcome(o) == "ok"

handleIpcMessage(c, form, from, payload, fallback, netBase) ==
    LET ev == Present(form, from, payload)
        message == ev.data
        source == Source(c, ev, fallback)
        inOp == [NoOp EXCEPT !.kind = "inbound", !.ctx = c, !.form = form,
                             !.source = ev.source, !.fallback = fallback, !.msg = message]
    IN
    /\ op = NoOp
    /\ IF Unwrap(c, ev) # NONE
       THEN /\ op' = [inOp EXCEPT !.outcome = Unwrap(c, ev)]
            /\ net' = netBase
            /\ UNCHANGED <<config, ipcReqId, ipcReqs, promises, ipcHandlers, running>>
       ELSE IF IsCall(message)
       THEN LET cb == LookupHandler(c, message.call) IN
            IF IsAsync(cb)
            THEN \* await reqHandler(message.data): suspended until the handler settles
                 /\ Cardinality(running[c]) < MaxRun
                 /\ running' = [running EXCEPT ![c] = @ \cup
                       {[msg |-> message, source |-> source, cb |-> cb]}]
                 /\ net' = netBase
                 /\ op' = [inOp EXCEPT !.outcome = "suspended", !.invoked = cb]
                 /\ UNCHANGED <<config, ipcReqId, ipcReqs, promises, ipcHandlers>>
            ELSE \E o \in Outcomes(cb, message.data) :
                 LET sent == ReplySent(c, message, source, o) IN
                 /\ net' = Post(netBase, sent)
                 /\ Cardinality(net') <= MaxNet
                 /\ op' = [inOp EXCEPT !.outcome = CallOutcome(o), !.invoked = cb,
                                       !.result = o, !.sent = sent]
                 /\ UNCHANGED <<config, ipcReqId, ipcReqs, promises, ipcHandlers, running>>
       ELSE LET sent == ResultBranchSent(c, message, source) IN
            /\ promises' = DispatchResult(promises, c, message)
            /\ ipcReqs' = [ipcReqs EXCEPT ![c] = @ \ ResultKey(message)]
            /\ net' = Post(netBase, sent)
            /\ Cardinality(net') <= MaxNet
            /\ op' = [inOp EXCEPT !.sent = sent]
            /\ UNCHANGED <<config, ipcReqId, ipcHandlers, running>>

\* The suspended handler settles; handleIpcMessage continues after its await.
ResumeHandler(c, r, o) ==
    LET sent == ReplySent(c, r.msg, r.source, o) IN
    /\ op = NoOp
    /\ running' = [running EXCEPT ![c] = @ \ {r}]
    /\ net' = Post(net, sent)
    /\ Cardinality(net') <= MaxNet
    /\ op' = [NoOp EXCEPT !.kind = "resume", !.ctx = c, !.source = r.source, !.msg = r.msg,
                          !.outcome = CallOutcome(o),
                          !.invoked = r.cb, !.result = o, !.sent = sent]
    /\ UNCHANGED <<config, ipcReqId, ipcReqs, promises, ipcHandlers>>

\* ---------------------------------------------------------------- transport
\* How a context's transport presents a received payload to its listener:
\* a browser context gets a trusted MessageEvent naming the sender, a Node
\* context gets the payload itself.
Forms(c) == IF hasMessageEvent(c) THEN {"event"} ELSE {"bare"}

\* The transport delivers a message in flight (once, or again later: no
\* exactly-once is assumed) and the listener passes it to handleIpcMessage,
\* with or without a second argument.
Deliver(m, form, fallback, keep) ==
    handleIpcMessage(m.to, form, m.from, m.payload, fallback, IF keep THEN net ELSE net \ {m})

\* ------------------------------------------------------------- open world
\* Open world: one router, its embedding code, and whatever may arrive.
\* What an arbitrary peer, or the embedding code, may hand to the router.
Router == "main"
OpenForms(c) ==
    IF hasMessageEvent(c) THEN {"event", "eventNoSource", "untrusted", "bare"} ELSE {"bare"}
\* The second argument a listener may pass along with a bare payload: nothing,
\* or the endpoint of the other side (the worker object of the worker test).
Fallbacks(form) == IF form = "bare" THEN {NONE, "peer"} ELSE {NONE}

InjectPayloads ==
    {Message("greet", "World", h, "x", UNDEF) : h \in {NoHandle, 0, 1, StrHandle}}
    \cup {Message(UNDEF, "World", h, "x", UNDEF) : h \in {NoHandle, 0, 1, MaxReq}}
    \cup {Message(UNDEF, UNDEF, 1, "x", e) : e \in {"", "boom"}}
    \cup {Message(n, "World", 1, "x", UNDEF) : n \in {"legacy", "", NUMVAL}}
    \cup {[Message("greet", "World", 1, "x", UNDEF) EXCEPT !.extra = "x"],
          Message("greet", "World", 1, UNDEF, UNDEF),
          NullPayload}

\* The turn ends: control returns to the event loop.
EndTurn ==
    /\ op # NoOp
    /\ op' = NoOp
    /\ UNCHANGED <<config, ipcReqId, ipcReqs, promises, ipcHandlers, running, net>>

\* ------------------------------------------------------------------ actions
\* Closed world: the application in "main" calls operations that the
\* application in "peer" serves, over endpoints that exist; both run the router.
Client == "main"
Server == "peer"
LinkTargets(c) == Targets(c) \cap {"iframe", "window", "port"}
LinkCalls == {"greet", "legacy"}

Register == \E n \in RegNames : \E h \in Registrable(n) : addIpcMessageHandler(Server, n, h)
Request == \E t \in LinkTargets(Client), n \in LinkCalls, d \in Data : makeIpcRequest(Client, t, n, d)
Notify == \E t \in LinkTargets(Client), n \in LinkCalls, d \in Data : sendIpcMessage(Client, t, n, d)
Receive == \E m \in net : \E f \in Forms(m.to), keep \in BOOLEAN : \E fb \in Fallbacks(f) :
                Deliver(m, f, fb, keep)
Resume == \E c \in Ctx : \E r \in running[c] : \E o \in Outcomes(r.cb, r.msg.data) :
                ResumeHandler(c, r, o)

Next == Register \/ Request \/ Notify \/ Receive \/ Resume \/ EndTurn

Spec == Init /\ [][Next]_vars

RouterRegister == \E n \in RegNames : \E h \in Registrable(n) : addIpcMessageHandler(Router, n, h)
RouterRequest == \E t \in Targets(Router), n \in ReqCalls, d \in Data : makeIpcRequest(Router, t, n, d)
RouterNotify == \E t \in Targets(Router), n \in ReqCalls, d \in Data : sendIpcMessage(Router, t, n, d)
Inject == \E f \in OpenForms(Router), p \in InjectPayloads : \E fb \in Fallbacks(f) :
                handleIpcMessage(Router, f, "peer", p, fb, net)
RouterResume == \E r \in running[Router] : \E o \in Outcomes(r.cb, r.msg.data) :
                ResumeHandler(Router, r, o)

NextRouter == RouterRegister \/ RouterRequest \/ RouterNotify \/ Inject \/ RouterResume \/ EndTurn

SpecRouter == InitRouter /\ [][NextRouter]_vars

\* ================================================================ claims
Untrusted == "Received IPC data was not a trusted instance of type MessageEvent"
Threw(o) == o.outcome # "ok" /\ o.outcome # "suspended"

\* A Result Message as the router builds it: no `call`, a numeric handle.
IsReply(m) == m.kind = "object" /\ m.call = UNDEF /\ m.handle >= 0
\* The handler of this turn has completed (this turn, or it resumed in it).
Completed(o) == o.kind \in {"inbound", "resume"} /\ o.outcome = "ok"
\* The turn served a Call Message that carries a handle and names a sender.
ServedCall(o) ==
    /\ Completed(o) /\ o.msg.kind = "object"
    /\ o.msg.call \in CallNames \ {""}
    /\ o.msg.handle >= 0
    /\ o.source # NONE
\* The turn processed a reply, delivered in a trusted event, to a request
\* that was pending when the turn began.
ReplyToPending(o) ==
    /\ o.kind = "inbound" /\ o.form = "event" /\ IsReply(o.msg)
    /\ o.msg.handle \in ipcReqs[o.ctx]
DeferredOf(o) == promises'[o.ctx][o.msg.handle + 1].def

\* C1: round trip. For every handle the counter allocates (0 included), when
\* the handler of a call returns a value the router replies with exactly that
\* value under the call's handle, and when that reply is delivered to the
\* requester's router the request's future is resolved with exactly it.
C1_RoundTrip ==
    [][ /\ (ServedCall(op') /\ op'.invoked # NONE /\ ~op'.result.threw)
            => op'.sent = {Wire(op'.ctx, op'.source,
                    Message(UNDEF, op'.result.value, op'.msg.handle,
                            getWindowNameSafe(op'.ctx), UNDEF))}
        /\ (ReplyToPending(op') /\ op'.msg.error = UNDEF /\ op'.msg.data # UNDEF)
            => DeferredOf(op') = [state |-> "resolved", value |-> op'.msg.data]
      ]_vars

\* C2: error propagation. When the handler of a call that carries a handle
\* raises, the reply carries the string made from the failure (possibly ""),
\* and when that reply is delivered the requester's future is rejected, never
\* resolved, with that string as the error message.
C2_ErrorPropagation ==
    [][ /\ (ServedCall(op') /\ op'.invoked # NONE /\ op'.result.threw)
            => /\ Cardinality(op'.sent) = 1
               /\ \A w \in op'.sent :
                    /\ w.payload.handle = op'.msg.handle
                    /\ w.payload.error =
                         (IF op'.result.isError THEN op'.result.value
                          ELSE IF op'.result.value = UNDEF THEN "undefined"
                          ELSE op'.result.value)
        /\ (ReplyToPending(op') /\ op'.msg.error # UNDEF)
            => DeferredOf(op') = [state |-> "rejected", value |-> op'.msg.error]
      ]_vars

\* C3: handles come from a per-process counter that starts at 0 and grows by
\* exactly 1 per request call, failing calls included: the i-th request call
\* of a context got handle i-1, so handles strictly increase and none repeats.
C3_HandlesStrictlyIncrease ==
    \A c \in Ctx :
        /\ ipcReqId[c] = Len(promises[c])
        /\ \A i \in 1..Len(promises[c]) : promises[c][i].handle = i - 1
        /\ (op.kind = "request" /\ op.ctx = c) => op.msg.handle = ipcReqId[c] - 1

C3_Witness ==
    /\ Len(promises[Router]) >= 2
    /\ ~promises[Router][1].sent
    /\ promises[Router][1].handle < promises[Router][2].handle
    /\ op.kind = "inbound"

\* The validator's Result Message (spec 4.1): no call, a numeric handle, a
\* source, and exactly one of data/error defined.
IsResultMessage(m) ==
    /\ m.kind = "object" /\ m.call = UNDEF /\ m.extra = UNDEF
    /\ m.handle >= 0 /\ m.source # UNDEF
    /\ (m.data = UNDEF) # (m.error = UNDEF)

\* C4: a Result Message whose handle has no entry in ipcReqs is a no-op,
\* wrapped (in a trusted event) or bare: no throw, the table and every future
\* as before, no handler invoked, nothing sent.
C4_UnknownResultIsNoOp ==
    [][ (/\ op'.kind = "inbound"
         /\ op'.form \in {"event", "eventNoSource", "bare"}
         /\ IsResultMessage(op'.msg)
         /\ op'.msg.handle \notin ipcReqs[op'.ctx])
        => /\ op'.outcome = "ok"
           /\ ipcReqs' = ipcReqs /\ promises' = promises
           /\ op'.invoked = NONE /\ op'.sent = {} /\ net' = net
      ]_vars

C6_NotifyLeavesNoTrace ==
    [][ /\ op'.kind = "notify"
            => /\ ipcReqs' = ipcReqs /\ ipcReqId' = ipcReqId /\ promises' = promises
               /\ \A w \in op'.sent : w.payload.handle = NoHandle
        /\ (op'.kind = "inbound" /\ op'.msg.call = UNDEF /\ op'.msg.handle = NoHandle)
            => ipcReqs' = ipcReqs /\ promises' = promises
      ]_vars

C6_Witness ==
    /\ op.kind = "notify" /\ op.outcome = "ok" /\ op.sent # {}
    /\ ipcReqs[op.ctx] # {}

\* C7: a call with a handle that finds neither a handler nor a window function
\* is answered with a success Result Message whose data is undefined, and
\* when that reply is delivered the requester's future is resolved with
\* undefined, not rejected.
C7_MissingHandlerResolvesUndefined ==
    [][ /\ (ServedCall(op') /\ op'.invoked = NONE)
            => op'.sent = {Wire(op'.ctx, op'.source,
                    Message(UNDEF, UNDEF, op'.msg.handle,
                            getWindowNameSafe(op'.ctx), UNDEF))}
        /\ (ReplyToPending(op') /\ op'.msg.error = UNDEF /\ op'.msg.data = UNDEF)
            => DeferredOf(op') = [state |-> "resolved", value |-> UNDEF]
      ]_vars

\* C8: a wrapped message whose event is not trusted makes handleIpcMessage
\* throw, whatever the payload: no handler invoked or suspended, nothing sent,
\* ipcReqs and every future as before.
C8_UntrustedRejected ==
    [][ (op'.kind = "inbound" /\ op'.form = "untrusted")
        => /\ op'.outcome = Untrusted
           /\ op'.invoked = NONE /\ op'.sent = {}
           /\ ipcReqs' = ipcReqs /\ promises' = promises
           /\ running' = running /\ net' = net
      ]_vars

C8_Witness ==
    /\ op.kind = "inbound" /\ op.form = "untrusted" /\ op.outcome = Untrusted
    /\ op.msg.call = "greet" /\ ipcHandlers[op.ctx]["greet"] # NONE
    /\ op.msg.handle \in ipcReqs[op.ctx]

\* C9: a bare Call Message with a handle, handed to the router together with
\* a fallback reply target, is answered with a Result Message sent to that
\* fallback target.
C9_BareCallRepliesToFallback ==
    (/\ op.kind = "inbound" /\ op.form = "bare" /\ op.fallback # NONE
     /\ op.outcome = "ok" /\ op.msg.call \in CallNames \ {""} /\ op.msg.handle >= 0)
    => \E w \in op.sent :
        /\ w.to = op.fallback
        /\ IsReply(w.payload) /\ w.payload.handle = op.msg.handle

\* C10: request and notify report every failure to resolve the destination
\* or to dispatch: they throw (request: its future is rejected) when the
\* destination yields no endpoint or nothing can send, and when they return
\* normally exactly one message was handed to the transport.
C10_SendFailuresReported ==
    op.kind \in {"request", "notify"} =>
        /\ op.target \in {"null", "iframeNoWindow"} => Threw(op)
        /\ (op.target = "plainObject" /\ env[op.ctx] = "node") => Threw(op)
        /\ Threw(op) => op.sent = {}
        /\ ~Threw(op) => Cardinality(op.sent) = 1
        /\ (op.kind = "request" /\ Threw(op))
            => Future(promises[op.ctx][op.msg.handle + 1]).state = "rejected"

C10_Witness ==
    /\ op.kind = "notify" /\ op.target = "iframeNoWindow" /\ Threw(op)
    /\ op.sent = {}

\* C11: the registry holds one callback per name and the last registration
\* wins: a registration rebinds its name only, nothing else changes the
\* registry, and an inbound call for a bound name invokes the callback bound
\* to that name when the call arrives.
C11_LastRegistrationWins ==
    [][ /\ (op'.kind = "register")
            => ipcHandlers' = [ipcHandlers EXCEPT ![op'.ctx][op'.target] = op'.invoked]
        /\ (op'.kind # "register") => ipcHandlers' = ipcHandlers
        /\ (/\ op'.kind = "inbound" /\ op'.outcome \in {"ok", "suspended"}
            /\ op'.msg.kind = "object" /\ op'.msg.call \in RegNames \ {""}
            /\ ipcHandlers[op'.ctx][op'.msg.call] # NONE)
            => op'.invoked = ipcHandlers[op'.ctx][op'.msg.call]
      ]_vars
\* A call for "greet" invokes "fail" while an earlier call for "greet" is
\* still suspended in "slow": the name was rebound in between.
C11_Witness ==
    /\ op.kind = "inbound" /\ op.msg.call = "greet" /\ op.invoked = "fail"
    /\ \E r \in running[op.ctx] : r.cb = "slow" /\ r.msg.call = "greet"

\* C12: the completion entry is in ipcReqs from the step that hands the Call
\* Message to the transport: in every state, a request whose Call Message was
\* sent and whose future no Result Message has completed has its handle in
\* the table, so a reply in flight always finds its entry.
C12_EntryBeforeSend ==
    \A c \in Ctx : \A i \in 1..Len(promises[c]) :
        (promises[c][i].sent /\ promises[c][i].def.state = "pending")
            => promises[c][i].handle \in ipcReqs[c]
\* The reply to the second request is in flight and its entry is waiting.
C12_Witness ==
    \E m \in net :
        /\ IsReply(m.payload) /\ m.to = Client /\ m.payload.handle = 1
        /\ Len(promises[Client]) = 2
        /\ promises[Client][2].sent /\ promises[Client][2].def.state = "pending"
        /\ 1 \in ipcReqs[Client]

\* C13: every entry of ipcReqs belongs to a request whose Call Message was
\* sent: a request that failed before sending (no endpoint, invalid message,
\* nothing that can send) leaves no entry under its handle.
C13_NoEntryForFailedRequest ==
    \A c \in Ctx : \A i \in 1..Len(promises[c]) :
        promises[c][i].handle \in ipcReqs[c] => promises[c][i].sent

\* C14: processing a Result Message whose handle has an entry in ipcReqs
\* (any allocated handle, 0 included) completes the entry's future and removes
\* the entry in the same step; a completed future never changes again, and a
\* Result Message whose handle has no entry changes neither table nor futures.
C14_ResultCompletesAndRemoves ==
    [][ /\ ReplyToPending(op')
            => /\ DeferredOf(op').state # "pending"
               /\ op'.msg.handle \notin ipcReqs'[op'.ctx]
        /\ \A c \in Ctx : \A i \in 1..Len(promises[c]) :
            promises[c][i].def.state # "pending"
                => promises'[c][i].def = promises[c][i].def
        /\ (/\ op'.kind = "inbound" /\ op'.form = "event" /\ IsReply(op'.msg)
            /\ op'.msg.handle \notin ipcReqs[op'.ctx])
            => (ipcReqs' = ipcReqs /\ promises' = promises)
      ]_vars

\* C15: for an inbound Call Message without a handle (a notification) the
\* router sends nothing, whether the handler returns, raises, settles later,
\* or does not exist.
C15_NoReplyToNotification ==
    [][ (/\ op'.kind \in {"inbound", "resume"} /\ op'.msg.kind = "object"
         /\ TypeOf(op'.msg.call) = "string" /\ op'.msg.call # ""
         /\ op'.msg.handle = NoHandle)
        => (op'.sent = {} /\ net' \subseteq net)
      ]_vars
\* A notification from a known sender whose handler raised: nothing was sent.
C15_Witness ==
    /\ op.kind = "inbound" /\ op.form = "event" /\ op.source # NONE
    /\ op.msg.call = "greet" /\ op.msg.handle = NoHandle
    /\ op.invoked = "fail" /\ op.result.threw /\ op.sent = {}

\* C16: a Call Message that carries a handle but reaches the router with no
\* reply-to endpoint (bare, or wrapped in an event without a source, and no
\* fallback) makes handleIpcMessage fail rather than complete normally without
\* a reply.
C16_NoReplyTargetFails ==
    (/\ op.kind \in {"inbound", "resume"} /\ op.outcome # "suspended"
     /\ op.msg.kind = "object"
     /\ TypeOf(op.msg.call) = "string" /\ op.msg.call # ""
     /\ op.msg.handle >= 0
     /\ op.source = NONE /\ op.fallback = NONE)
    => Threw(op)

\* The endpoint a reply to this turn's call is due to: the event's source,
\* else the fallback the listener passed.
ReplyTo(o) == IF o.source # NONE THEN o.source ELSE o.fallback
\* The turn completed the handler of a Call Message that carries a handle.
CompletedCall(o) ==
    /\ Completed(o) /\ o.msg.kind = "object"
    /\ o.msg.call \in CallNames \ {""}
    /\ o.msg.handle >= 0

\* C17: a Call Message with a handle and a reply-to endpoint gets exactly one
\* Result Message, sent to that endpoint in the turn in which its handler has
\* completed and carrying the call's handle: a turn that suspends on the
\* handler sends nothing and leaves the call suspended, the turn that resumes
\* it replies once and retires it, and no other turn sends a Result Message.
C17_ExactlyOneReplyAfterCompletion ==
    [][ /\ (CompletedCall(op') /\ ReplyTo(op') # NONE)
            => /\ Cardinality(op'.sent) = 1
               /\ \A w \in op'.sent :
                    /\ w.to = ReplyTo(op') /\ IsReply(w.payload)
                    /\ w.payload.handle = op'.msg.handle
        /\ (op'.kind = "inbound" /\ op'.outcome = "suspended")
            => /\ op'.sent = {}
               /\ \E r \in running'[op'.ctx] \ running[op'.ctx] : r.msg = op'.msg
        /\ (op'.kind = "resume")
            => \E r \in running[op'.ctx] \ running'[op'.ctx] :
                    r.msg = op'.msg /\ r.source = op'.source
        /\ (\E w \in op'.sent : IsReply(w.payload)) => CompletedCall(op')
      ]_vars

\* C18: a failure raised by a local handler never makes handleIpcMessage
\* fail: the turn in which the handler threw (at once, or after a suspension)
\* ends normally, with the registry, ipcReqs and every future as before and no
\* call left suspended by it, so the router goes on to the next message.
C18_HandlerFailureContained ==
    [][ (/\ op'.kind \in {"inbound", "resume"}
         /\ op'.invoked # NONE /\ op'.result.threw)
        => /\ ~Threw(op')
           /\ ipcHandlers' = ipcHandlers
           /\ ipcReqs' = ipcReqs /\ promises' = promises
           /\ running'[op'.ctx] \subseteq running[op'.ctx]
      ]_vars
\* The serving router handles the second call after its handler failed on
\* the first: the error reply to handle 0 is still in flight.
C18_Witness ==
    /\ op.kind = "inbound" /\ op.ctx = Server /\ op.outcome = "ok"
    /\ op.msg.call = "greet" /\ op.msg.handle = 1 /\ op.invoked # NONE
    /\ \E m \in net : /\ m.from = Server /\ IsReply(m.payload)
                      /\ m.payload.handle = 0 /\ m.payload.error = "boom"

\* C19 as stated: every Result Message the router sends has a numeric handle
\* and exactly one of data/error defined, for every handler outcome.
C19_ResultWellFormed ==
    op.kind \in {"inbound", "resume"} =>
        \A w \in op.sent :
            /\ w.payload.handle >= 0
            /\ (w.payload.data = UNDEF) # (w.payload.error = UNDEF)

\* C19, amended: every Result Message the router sends has no `call`, carries
\* the handle of the Call Message it answers (a number whenever that one is)
\* and never both data and error: after a failure error is a string and data
\* is undefined, otherwise error is undefined and data is the handler's value,
\* undefined when the handler returned undefined or none was found.
C19_ResultCarriesValueOrError ==
    op.kind \in {"inbound", "resume"} =>
        \A w \in op.sent :
            /\ w.payload.kind = "object" /\ w.payload.call = UNDEF
            /\ w.payload.handle = op.msg.handle
            /\ w.payload.handle \notin {NoHandle, NullHandle}
            /\ IF op.result.threw
               THEN TypeOf(w.payload.error) = "string" /\ w.payload.data = UNDEF
               ELSE w.payload.error = UNDEF /\ w.payload.data = op.result.value
\* No handler was found for a call with a handle: the reply has neither data
\* nor error defined.
C19_Witness ==
    /\ op.kind = "inbound" /\ op.invoked = NONE /\ op.msg.call = "greet"
    /\ \E w \in op.sent :
        /\ w.payload.handle = op.msg.handle
        /\ w.payload.data = UNDEF /\ w.payload.error = UNDEF

\* A well-formed Call Message: keys within {call, data, handle, source}, call
\* a non-empty string, source a string, handle absent or a number.
WellFormedCall(m) ==
    /\ m.kind = "object" /\ m.extra = UNDEF /\ m.error = UNDEF
    /\ TypeOf(m.call) = "string" /\ m.call # ""
    /\ TypeOf(m.source) = "string"
    /\ (m.handle = NoHandle \/ m.handle >= 0)

\* C20: an inbound payload, in a trusted event or bare, that is neither a
\* well-formed Call Message nor a well-formed Result Message makes
\* handleIpcMessage fail and do nothing else: no handler invoked or suspended,
\* nothing sent, ipcReqs and every future as before.
C20_MalformedRejected ==
    [][ (/\ op'.kind = "inbound" /\ op'.form \in {"event", "eventNoSource", "bare"}
         /\ ~WellFormedCall(op'.msg) /\ ~IsResultMessage(op'.msg))
        => /\ Threw(op')
           /\ op'.invoked = NONE /\ op'.sent = {}
           /\ running' = running
           /\ ipcReqs' = ipcReqs /\ promises' = promises
      ]_vars

\* C21: with several requests outstanding and replies delivered in any order,
\* duplicated or interleaved with other messages, a request's future changes
\* only in the turn that processes an inbound message carrying that request's
\* own handle, and it takes the outcome that message carries.
C21_CompletedByOwnHandleOnly ==
    [][ \A c \in Ctx : \A i \in 1..Len(promises[c]) :
            promises'[c][i].def # promises[c][i].def
            => /\ op'.kind = "inbound" /\ op'.ctx = c
               /\ op'.msg.handle = promises[c][i].handle
               /\ promises'[c][i].def \in
                    {[state |-> "resolved", value |-> op'.msg.data],
                     [state |-> "rejected", value |-> op'.msg.error]}
      ]_vars
\* Two requests are outstanding and the reply to the second overtakes the
\* reply to the first: the second future is resolved with its own reply's
\* data, the first is pending with its reply still in flight.
C21_Witness ==
    /\ op.kind = "inbound" /\ op.ctx = Client /\ IsReply(op.msg) /\ op.msg.handle = 1
    /\ Len(promises[Client]) = 2
    /\ promises[Client][2].def = [state |-> "resolved", value |-> op.msg.data]
    /\ promises[Client][1].def.state = "pending"
    /\ \E m \in net : m.to = Client /\ IsReply(m.payload) /\ m.payload.handle = 0

\* C22: an inbound message whose `call` is a non-empty string is routed as a
\* call, never as a result: whatever handle it carries, also one that equals
\* the handle of a locally pending request, ipcReqs and every future stay as
\* they were, in the turn that receives it and in the turn that resumes it.
C22_CallNeverRoutedAsResult ==
    [][ (/\ op'.kind \in {"inbound", "resume"} /\ op'.msg.kind = "object"
         /\ TypeOf(op'.msg.call) = "string" /\ op'.msg.call # "")
        => (ipcReqs' = ipcReqs /\ promises' = promises)
      ]_vars
\* A peer's call with handle 1 was handled while the local request with
\* handle 1 is pending: the request is still pending and still in the table.
C22_Witness ==
    /\ op.kind = "inbound" /\ op.outcome = "ok" /\ op.form = "event"
    /\ op.msg.call = "greet" /\ op.msg.handle = 1
    /\ 1 \in ipcReqs[op.ctx]
    /\ Len(promises[op.ctx]) = 2
    /\ promises[op.ctx][2].sent /\ promises[op.ctx][2].def.state = "pending"

\* C23: processing an inbound Result Message, matched or not, invokes no
\* handler, suspends nothing and sends nothing, and processing an inbound
\* Call Message leaves the handle counter, ipcReqs and every future as they
\* were: a reply never triggers a further reply between two routers.
C23_ResultsAndCallsKeepApart ==
    [][ /\ (op'.kind = "inbound" /\ IsReply(op'.msg))
            => /\ op'.invoked = NONE /\ op'.sent = {}
               /\ net' \subseteq net
               /\ running' = running /\ ipcHandlers' = ipcHandlers
        /\ (/\ op'.kind \in {"inbound", "resume"} /\ WellFormedCall(op'.msg))
            => /\ ipcReqId' = ipcReqId
               /\ ipcReqs' = ipcReqs /\ promises' = promises
      ]_vars
\* The requester processed the error reply to its second request: the future
\* is rejected, no handler ran and nothing was sent back.
C23_Witness ==
    /\ op.kind = "inbound" /\ op.ctx = Client /\ IsReply(op.msg) /\ op.msg.handle = 1
    /\ op.msg.error = "boom"
    /\ Len(promises[Client]) = 2
    /\ promises[Client][2].def = [state |-> "rejected", value |-> "boom"]
    /\ op.invoked = NONE /\ op.sent = {}

====
